---- MODULE Spec2Model ----
(***************************************************************************)
(* impeller/entity/geometry/vertices_geometry.cc                           *)
(*                                                                         *)
(* VerticesGeometry owns a mesh (positions, optional colours, optional     *)
(* texture coordinates, optional 16-bit indices, a topology mode), unrolls *)
(* triangle fans into triangle lists once in its constructor, and packs    *)
(* the mesh into one of three vertex layouts on request.                   *)
(*                                                                         *)
(* Scalars are floats in the source.  Here a finite scalar is an integer   *)
(* number of kEhCloseEnough steps (so 1.0 is One), and the scalars that    *)
(* take part in the UV computation additionally carry the float NaN.       *)
(* Sequences are 1-based in TLA+; the source's 0-based subscript i is      *)
(* At(s, i).                                                               *)
(***************************************************************************)
EXTENDS Integers, Sequences, FiniteSets, TLC

VARIABLES
    phase,                 \* "new" before the constructor, "live" after, "faulted" after a fault
    vertices_,             \* std::vector<Point> vertices_
    colors_,               \* std::vector<Color> colors_
    texture_coordinates_,  \* std::vector<Point> texture_coordinates_
    indices_,              \* std::vector<uint16_t> indices_
    bounds_,               \* Rect bounds_
    vertex_mode_,          \* VertexMode vertex_mode_
    input,                 \* the constructor's arguments, as passed
    last,                  \* the most recent call on the object: op, args, ret
    reads,                 \* the element reads operator[] made during that call
    fan_vertices_size,     \* fromFanIndices: vertices.size() of its argument vertices
    fan_indices,           \* fromFanIndices: argument indices
    fan_out,               \* fromFanIndices: returned vector
    fan_i,                 \* fromFanIndices: loop counter i of the implicit branch
    fan_pushed,            \* fromFanIndices: the triple iteration i pushed
    fan_pc                 \* "call"/"done": a whole call; "iterate"/"pushed": one iteration

geom == <<vertices_, colors_, texture_coordinates_, indices_, bounds_, vertex_mode_>>
obj  == <<phase, vertices_, colors_, texture_coordinates_, indices_, bounds_,
          vertex_mode_, input, last, reads>>
fan  == <<fan_vertices_size, fan_indices, fan_out, fan_i, fan_pushed, fan_pc>>
vars == <<phase, vertices_, colors_, texture_coordinates_, indices_, bounds_,
          vertex_mode_, input, last, reads,
          fan_vertices_size, fan_indices, fan_out, fan_i, fan_pushed, fan_pc>>

(***************************************************************************)
(* Bounds of the model.                                                    *)
(***************************************************************************)
MaxVertices == 3        \* longest vertex, colour and texture-coordinate list of the constructor
MaxIndices == 4         \* longest index list handed to the constructor
MaxIndexValue == 2      \* largest index value handed to the constructor
MaxFanVertices == 5     \* longest small vertex list handed to fromFanIndices
MaxFanIndices == 4      \* longest index list handed to fromFanIndices
MaxFanIndexValue == 5   \* largest index value handed to fromFanIndices

(***************************************************************************)
(* Program constants.                                                      *)
(***************************************************************************)
U16Range == 65536       \* number of values of uint16_t, the index type
kEhCloseEnough == 1     \* the scalar unit: 1e-3
One == 1000 * kEhCloseEnough

At(s, i) == s[i + 1]
ToU16(n) == n % U16Range

SeqsUpTo(S, n) == UNION {[1..k -> S] : k \in 0..n}
Min(S) == CHOOSE x \in S : \A y \in S : x <= y
Max(S) == CHOOSE x \in S : \A y \in S : x >= y

(***************************************************************************)
(* Value domains of the constructor's arguments.                           *)
(***************************************************************************)
Pt(x, y) == [x |-> x, y |-> y]
PointA == Pt(0, One \div 2)
PointB == Pt(2 * One, 0 - (One \div 2))
Points == {PointA, PointB}

ColorA == "red"
ColorB == "blue"
Colors == {ColorA, ColorB}

MakeLTRB(l, t, r, b) == [l |-> l, t |-> t, r |-> r, b |-> b]

VertexModes == {"kTriangles", "kTriangleStrip", "kTriangleFan"}

\* The constructor validates nothing: the four lists have independent
\* lengths, and an index may name no vertex.
VertexLists ==
    {[k \in 1..n |-> IF k % 2 = 1 THEN PointA ELSE PointB] : n \in 0..MaxVertices}
IndexLists == {[k \in 1..n |-> (k - 1) % (MaxIndexValue + 1)] : n \in 0..MaxIndices}
TexCoordLists ==
    {[k \in 1..n |-> IF k % 2 = 1 THEN PointB ELSE PointA] : n \in 0..MaxVertices}
ColorLists == {[k \in 1..n |-> ColorA] : n \in 0..MaxVertices}
BoundsRects == {MakeLTRB(0, 0, One, One)}

(***************************************************************************)
(* fromFanIndices (static).  Of its argument vertices it reads only        *)
(* vertices.size(), which is what the model passes.  Each loop             *)
(*     for (auto i = 1u; i < size - 1; i++) { push(a); push(b); push(c); } *)
(* pushes one triple per iteration, so the returned vector is the triples  *)
(* of iterations 1 .. size - 2 in order: counting from zero, its element k *)
(* is push number k mod 3 of iteration k / 3 + 1.  push_back takes a       *)
(* uint16_t, so the unsigned loop counter of the implicit branch is        *)
(* narrowed to 16 bits when it is stored.                                  *)
(***************************************************************************)
\* Mutant of ExplicitFanTriple: a sliding window of three, as for a strip,
\* instead of the shared first index.
ExplicitFanTriple_Strip(indices, i) ==
    <<At(indices, i - 1), At(indices, i), At(indices, i + 1)>>

ExplicitFanTriple(indices, i) ==
    LET center_point == At(indices, 0)
    IN  <<center_point, At(indices, i), At(indices, i + 1)>>

ImplicitFanTriple(i) == <<ToU16(0), ToU16(i), ToU16(i + 1)>>

fromFanExplicit(indices) ==
    [k \in 1..(3 * (Len(indices) - 2)) |->
        ExplicitFanTriple(indices, ((k - 1) \div 3) + 1)[((k - 1) % 3) + 1]]

fromFanImplicit(vertices_size) ==
    [k \in 1..(3 * (vertices_size - 2)) |->
        ImplicitFanTriple(((k - 1) \div 3) + 1)[((k - 1) % 3) + 1]]

fromFanIndices(vertices_size, indices) ==
    IF Len(indices) > 0
    THEN IF Len(indices) < 3 THEN <<>> ELSE fromFanExplicit(indices)
    ELSE IF vertices_size < 3 THEN <<>> ELSE fromFanImplicit(vertices_size)

(***************************************************************************)
(* Float scalars of the UV computation: a finite value or NaN.  Every      *)
(* ordered comparison with NaN is false and arithmetic on NaN gives NaN.   *)
(***************************************************************************)
F(n) == [nan |-> FALSE, v |-> n]
NaN == [nan |-> TRUE, v |-> 0]
FLess(a, b) == (~a.nan) /\ (~b.nan) /\ a.v < b.v
FAdd(a, b) == IF a.nan \/ b.nan THEN NaN ELSE F(a.v + b.v)
FMul(a, b) == IF a.nan \/ b.nan THEN NaN ELSE F((a.v * b.v) \div One)

\* Matrix, restricted to the axis-aligned scale-and-translate matrices.
MakeMatrix(sx, sy, tx, ty) == [sx |-> sx, sy |-> sy, tx |-> tx, ty |-> ty]
\* Matrix::operator*(Matrix): (a * b) applies b first, then a.
MatrixMul(a, b) ==
    MakeMatrix(FMul(a.sx, b.sx), FMul(a.sy, b.sy),
               FAdd(FMul(a.sx, b.tx), a.tx), FAdd(FMul(a.sy, b.ty), a.ty))
\* Matrix::operator*(Point)
MatrixApply(m, p) ==
    Pt(FAdd(FMul(m.sx, F(p.x)), m.tx), FAdd(FMul(m.sy, F(p.y)), m.ty))

\* Rect::GetNormalizingTransform: maps the rectangle onto the unit square;
\* an empty rectangle maps every point to the origin.
GetNormalizingTransform(rect) ==
    LET width == rect.r - rect.l
        height == rect.b - rect.t
    IN  IF width > 0 /\ height > 0
        THEN LET sx == (One * One) \div width
                 sy == (One * One) \div height
             IN  MakeMatrix(F(sx), F(sy),
                            F((0 - (rect.l * sx)) \div One),
                            F((0 - (rect.t * sy)) \div One))
        ELSE MakeMatrix(F(0), F(0), F(0), F(0))

\* Rect::MakePointBounds over a non-empty range of points.
MakePointBounds(points) ==
    LET xs == {points[k].x : k \in 1..Len(points)}
        ys == {points[k].y : k \in 1..Len(points)}
    IN  MakeLTRB(Min(xs), Min(ys), Max(xs), Max(ys))

\* Rect::TransformBounds: the bounds of the transformed corners.
TransformBounds(rect, m) ==
    LET a == MatrixApply(m, Pt(rect.l, rect.t))
        b == MatrixApply(m, Pt(rect.r, rect.b))
        lo(p, q) == IF p.nan \/ q.nan THEN NaN ELSE IF q.v < p.v THEN q ELSE p
        hi(p, q) == IF p.nan \/ q.nan THEN NaN ELSE IF q.v > p.v THEN q ELSE p
    IN  MakeLTRB(lo(a.x, b.x), lo(a.y, b.y), hi(a.x, b.x), hi(a.y, b.y))

\* std::clamp(v, lo, hi) is (v < lo) ? lo : (hi < v) ? hi : v
clamp(v, lo, hi) == IF FLess(v, lo) THEN lo ELSE IF FLess(hi, v) THEN hi ELSE v

\* std::optional<Rect>
Nullopt == [has_value |-> FALSE]
Some(x) == [has_value |-> TRUE, value |-> x]

\* BufferView: default-constructed (no buffer), or a view of emplaced data.
NoBufferView == [allocated |-> FALSE, data |-> <<>>]
Emplace(data) == [allocated |-> TRUE, data |-> data]

\* entity.GetShaderTransform(pass), supplied by the caller's entity.
ShaderTransform == "entity.GetShaderTransform(pass)"

(***************************************************************************)
(* Arguments of the calls.                                                 *)
(***************************************************************************)
IdentityMatrix == MakeMatrix(F(One), F(One), F(0), F(0))
StretchMatrix == MakeMatrix(F(3 * One), F(3 * One), F(0 - One), F(0 - One))
NaNMatrix == MakeMatrix(NaN, F(One), F(0), NaN)
Matrices == {IdentityMatrix, StretchMatrix, NaNMatrix}
TextureCoverages == {MakeLTRB(0, 0, One, One), MakeLTRB(0, 0, 0, One)}

\* What a read past the end of a vector finds there.
StaleMemory == [color : Colors, point : Points]

(***************************************************************************)
(* VerticesGeometry: constructor and queries.                              *)
(***************************************************************************)
\* Mutant of NormalizeIndices: unrolls whatever the mode is.
NormalizeIndices_AnyMode(vertex_mode, vertices, indices) ==
    fromFanIndices(Len(vertices), indices)

\* void NormalizeIndices(): the value it leaves in indices_
NormalizeIndices(vertex_mode, vertices, indices) ==
    IF vertex_mode = "kTriangleFan"
    THEN fromFanIndices(Len(vertices), indices)
    ELSE indices

GetPrimitiveType ==
    CASE vertex_mode_ = "kTriangleFan"   -> "kTriangle"
      [] vertex_mode_ = "kTriangleStrip" -> "kTriangleStrip"
      [] vertex_mode_ = "kTriangles"     -> "kTriangle"

HasVertexColors == Len(colors_) > 0

HasTextureCoordinates == Len(texture_coordinates_) > 0

\* Mutant of GetTextureCoordinateCoverge: no check of the vertex count.
GetTextureCoordinateCoverge_NoVertexCheck ==
    IF ~HasTextureCoordinates
    THEN Nullopt
    ELSE Some(MakePointBounds(texture_coordinates_))

GetTextureCoordinateCoverge ==
    IF ~HasTextureCoordinates
    THEN Nullopt
    ELSE LET vertex_count == Len(vertices_)
         IN  IF vertex_count = 0
             THEN Nullopt
             ELSE Some(MakePointBounds(texture_coordinates_))

GetVertexType ==
    IF HasVertexColors THEN "kColor"
    ELSE IF HasTextureCoordinates THEN "kUV"
    ELSE "kPosition"

GetCoverage(transform) == Some(TransformBounds(bounds_, transform))

(***************************************************************************)
(* VerticesGeometry: the three buffer builders.  The packing loops         *)
(* subscript the vectors without a bounds check; a subscript past the end  *)
(* is undefined behaviour, whose outcomes are a fault or whatever lies     *)
(* behind the vector (stale).                                              *)
(***************************************************************************)
Read(array, vec, i) == [array |-> array, index |-> i, size |-> Len(vec)]
OutOfBounds(rd) == \E r \in rd : r.index >= r.size
ReadAt(vec, i, stale) == IF i < Len(vec) THEN At(vec, i) ELSE stale
\* The stale values that matter to a call that made the reads rd.
StaleFor(rd) ==
    IF OutOfBounds(rd) THEN StaleMemory ELSE {[color |-> ColorA, point |-> PointA]}

MakeGeometryResult(vertex_buffer, index_buffer, index_count, vertex_count) ==
    [type |-> GetPrimitiveType,
     vertex_buffer |->
        [vertex_buffer |-> vertex_buffer,
         index_buffer |-> index_buffer,
         vertex_count |-> IF index_count > 0 THEN index_count ELSE vertex_count,
         index_type |-> IF index_count > 0 THEN "k16bit" ELSE "kNone"],
     transform |-> ShaderTransform]

\* Mutant of GetPositionBuffer: reports the vertex count even when indexed.
GetPositionBuffer_CountsVertices ==
    [type |-> GetPrimitiveType,
     vertex_buffer |->
        [vertex_buffer |-> Emplace(vertices_),
         index_buffer |-> IF Len(indices_) # 0 THEN Emplace(indices_) ELSE NoBufferView,
         vertex_count |-> Len(vertices_),
         index_type |-> IF Len(indices_) > 0 THEN "k16bit" ELSE "kNone"],
     transform |-> ShaderTransform]

GetPositionBuffer ==
    LET index_count == Len(indices_)
        vertex_count == Len(vertices_)
        vertex_buffer == Emplace(vertices_)
        index_buffer == IF index_count # 0 THEN Emplace(indices_) ELSE NoBufferView
    IN  MakeGeometryResult(vertex_buffer, index_buffer, index_count, vertex_count)

PositionColorReads ==
    UNION {{Read("vertices_", vertices_, i), Read("colors_", colors_, i)} :
           i \in 0..(Len(vertices_) - 1)}

GetPositionColorBuffer(stale) ==
    LET index_count == Len(indices_)
        vertex_count == Len(vertices_)
        vertex_buffer ==
            Emplace([k \in 1..Len(vertices_) |->
                        LET i == k - 1
                        IN  [position |-> At(vertices_, i),
                             color |-> ReadAt(colors_, i, stale.color)]])
        index_buffer == IF index_count > 0 THEN Emplace(indices_) ELSE NoBufferView
    IN  MakeGeometryResult(vertex_buffer, index_buffer, index_count, vertex_count)

PositionUVColorReads ==
    UNION {{Read("vertices_", vertices_, i), Read("colors_", colors_, i)}
             \cup (IF HasTextureCoordinates
                   THEN {Read("texture_coordinates_", texture_coordinates_, i)}
                   ELSE {}) :
           i \in 0..(Len(vertices_) - 1)}

GetPositionUVColorBuffer(texture_coverage, effect_transform, stale) ==
    LET vertex_count == Len(vertices_)
        uv_transform == MatrixMul(GetNormalizingTransform(texture_coverage),
                                  effect_transform)
        has_texture_coordinates == HasTextureCoordinates
        vertex_buffer ==
            Emplace([k \in 1..Len(vertices_) |->
                        LET i == k - 1
                            vertex == At(vertices_, i)
                            texture_coord ==
                                IF has_texture_coordinates
                                THEN ReadAt(texture_coordinates_, i, stale.point)
                                ELSE At(vertices_, i)
                            uv == MatrixApply(uv_transform, texture_coord)
                        IN  [vertices |-> vertex,
                             texture_coords |->
                                Pt(clamp(uv.x, F(0), F(One - kEhCloseEnough)),
                                   clamp(uv.y, F(0), F(One - kEhCloseEnough))),
                             color |-> ReadAt(colors_, i, stale.color)]])
        index_count == Len(indices_)
        index_buffer == IF index_count > 0 THEN Emplace(indices_) ELSE NoBufferView
    IN  MakeGeometryResult(vertex_buffer, index_buffer, index_count, vertex_count)

(***************************************************************************)
(* Actions: the constructor, then any sequence of calls on the object.     *)
(* Every method is const and synchronous; a call is one step.              *)
(***************************************************************************)
ObjIdle ==
    /\ phase = "new"
    /\ vertices_ = <<>>
    /\ colors_ = <<>>
    /\ texture_coordinates_ = <<>>
    /\ indices_ = <<>>
    /\ bounds_ = MakeLTRB(0, 0, 0, 0)
    /\ vertex_mode_ = "kTriangles"
    /\ input = [op |-> "none"]
    /\ last = [op |-> "none"]
    /\ reads = {}

FanIdle ==
    /\ fan_vertices_size = 0
    /\ fan_indices = <<>>
    /\ fan_out = <<>>
    /\ fan_i = 0
    /\ fan_pushed = <<>>
    /\ fan_pc = "idle"

Init ==
    /\ ObjIdle
    /\ FanIdle

VerticesGeometry(vertices, indices, texture_coordinates, colors, bounds, vertex_mode) ==
    /\ phase = "new"
    /\ vertices_' = vertices
    /\ colors_' = colors
    /\ texture_coordinates_' = texture_coordinates
    /\ bounds_' = bounds
    /\ vertex_mode_' = vertex_mode
    /\ indices_' = NormalizeIndices(vertex_mode, vertices, indices)
    /\ phase' = "live"
    /\ input' = [op |-> "VerticesGeometry", vertices |-> vertices, indices |-> indices,
                 texture_coordinates |-> texture_coordinates, colors |-> colors,
                 bounds |-> bounds, vertex_mode |-> vertex_mode]
    /\ UNCHANGED <<last, reads>>
    /\ UNCHANGED fan

Construct ==
    \E vertices \in VertexLists, indices \in IndexLists,
       texture_coordinates \in TexCoordLists, colors \in ColorLists,
       bounds \in BoundsRects, vertex_mode \in VertexModes :
        VerticesGeometry(vertices, indices, texture_coordinates, colors, bounds, vertex_mode)

\* What a call that faulted returns: nothing.
Fault == [fault |-> TRUE]

\* A call returns ret after the element reads rd.
Returns(op, args, ret, rd) ==
    /\ last' = [op |-> op, args |-> args, ret |-> ret]
    /\ reads' = rd
    /\ UNCHANGED <<phase, input>>
    /\ UNCHANGED geom
    /\ UNCHANGED fan

\* A call faults on an out-of-bounds read; the process is gone.
Faults(op, args, rd) ==
    /\ OutOfBounds(rd)
    /\ phase' = "faulted"
    /\ last' = [op |-> op, args |-> args, ret |-> Fault]
    /\ reads' = rd
    /\ UNCHANGED input
    /\ UNCHANGED geom
    /\ UNCHANGED fan

CallGetPrimitiveType ==
    /\ phase = "live"
    /\ Returns("GetPrimitiveType", <<>>, GetPrimitiveType, {})

CallHasVertexColors ==
    /\ phase = "live"
    /\ Returns("HasVertexColors", <<>>, HasVertexColors, {})

CallHasTextureCoordinates ==
    /\ phase = "live"
    /\ Returns("HasTextureCoordinates", <<>>, HasTextureCoordinates, {})

CallGetVertexType ==
    /\ phase = "live"
    /\ Returns("GetVertexType", <<>>, GetVertexType, {})

CallGetTextureCoordinateCoverge ==
    /\ phase = "live"
    /\ Returns("GetTextureCoordinateCoverge", <<>>, GetTextureCoordinateCoverge, {})

CallGetCoverage ==
    /\ phase = "live"
    /\ \E transform \in Matrices :
        Returns("GetCoverage", <<transform>>, GetCoverage(transform), {})

CallGetPositionBuffer ==
    /\ phase = "live"
    /\ Returns("GetPositionBuffer", <<>>, GetPositionBuffer, {})

CallGetPositionColorBuffer ==
    /\ phase = "live"
    /\ \E stale \in StaleFor(PositionColorReads) :
        \/ Returns("GetPositionColorBuffer", <<>>,
                   GetPositionColorBuffer(stale), PositionColorReads)
        \/ Faults("GetPositionColorBuffer", <<>>, PositionColorReads)

CallGetPositionUVColorBuffer ==
    /\ phase = "live"
    /\ \E texture_coverage \in TextureCoverages, effect_transform \in Matrices,
          stale \in StaleFor(PositionUVColorReads) :
        \/ Returns("GetPositionUVColorBuffer", <<texture_coverage, effect_transform>>,
                   GetPositionUVColorBuffer(texture_coverage, effect_transform, stale),
                   PositionUVColorReads)
        \/ Faults("GetPositionUVColorBuffer", <<texture_coverage, effect_transform>>,
                  PositionUVColorReads)

Next ==
    \/ Construct
    \/ CallGetPrimitiveType
    \/ CallHasVertexColors
    \/ CallHasTextureCoordinates
    \/ CallGetVertexType
    \/ CallGetTextureCoordinateCoverge
    \/ CallGetCoverage
    \/ CallGetPositionBuffer
    \/ CallGetPositionColorBuffer
    \/ CallGetPositionUVColorBuffer

Spec == Init /\ [][Next]_vars

(***************************************************************************)
(* The fan unroller on its own.  A whole call is made on small arguments.  *)
(* One iteration of the implicit loop is made at every counter value the   *)
(* loop reaches, for small vertex lists and for lists around the range of  *)
(* the index type: the loop runs iterations 1 .. size - 2 when size >= 3.  *)
(***************************************************************************)
WideVertexCounts == {U16Range - 1, U16Range, U16Range + 1, U16Range + 2}
FanIndexLists == SeqsUpTo(0..MaxFanIndexValue, MaxFanIndices)

InitFan ==
    /\ ObjIdle
    /\ fan_out = <<>>
    /\ fan_pushed = <<>>
    /\ \/ /\ fan_pc = "call"
          /\ fan_vertices_size \in 0..MaxFanVertices
          /\ fan_indices \in FanIndexLists
          /\ fan_i = 0
       \/ /\ fan_pc = "iterate"
          /\ fan_vertices_size \in (3..MaxFanVertices) \cup WideVertexCounts
          /\ fan_indices = <<>>
          /\ fan_i \in 1..(fan_vertices_size - 2)

CallFromFanIndices ==
    /\ fan_pc = "call"
    /\ fan_out' = fromFanIndices(fan_vertices_size, fan_indices)
    /\ fan_pc' = "done"
    /\ UNCHANGED <<fan_vertices_size, fan_indices, fan_i, fan_pushed>>
    /\ UNCHANGED obj

ImplicitFanIteration ==
    /\ fan_pc = "iterate"
    /\ Len(fan_indices) = 0
    /\ fan_vertices_size >= 3
    /\ fan_i < fan_vertices_size - 1
    /\ fan_pushed' = ImplicitFanTriple(fan_i)
    /\ fan_pc' = "pushed"
    /\ UNCHANGED <<fan_vertices_size, fan_indices, fan_i, fan_out>>
    /\ UNCHANGED obj

NextFan ==
    \/ CallFromFanIndices
    \/ ImplicitFanIteration

SpecFan == InitFan /\ [][NextFan]_vars

(***************************************************************************)
(* Properties.                                                             *)
(***************************************************************************)
Builders == {"GetPositionBuffer", "GetPositionColorBuffer", "GetPositionUVColorBuffer"}
BuilderReturned == phase = "live" /\ last.op \in Builders
Triple(s, i) == <<s[3 * i - 2], s[3 * i - 1], s[3 * i]>>

\* C1: every result a builder returns has vertex_count = number of stored
\* indices, an allocated index buffer and index_type k16bit when the stored
\* indices are non-empty, and vertex_count = number of vertices, no index
\* buffer and index_type kNone when they are empty; so index_type is k16bit
\* exactly when an index buffer was produced.
C1_SizeInvariant ==
    BuilderReturned =>
        LET vb == last.ret.vertex_buffer
        IN  /\ IF Len(indices_) > 0
               THEN /\ vb.vertex_count = Len(indices_)
                    /\ vb.index_buffer.allocated
                    /\ vb.index_type = "k16bit"
               ELSE /\ vb.vertex_count = Len(vertices_)
                    /\ ~vb.index_buffer.allocated
                    /\ vb.index_type = "kNone"
            /\ (vb.index_type = "k16bit") <=> vb.index_buffer.allocated

\* C1 witness: an indexed result whose count is the index count, not the
\* vertex count.
C1_Witness ==
    /\ BuilderReturned
    /\ last.op = "GetPositionUVColorBuffer"
    /\ Len(indices_) > 0
    /\ Len(indices_) # Len(vertices_)
    /\ last.ret.vertex_buffer.vertex_count = Len(indices_)
    /\ last.ret.vertex_buffer.index_type = "k16bit"

\* C2: for a non-empty index list of length n, fromFanIndices returns the
\* empty vector when n < 3 and otherwise exactly the triples
\* (indices[0], indices[i], indices[i+1]) for i = 1 .. n-2 in order, 3*(n-2)
\* entries, whatever the vertices are.
C2_ExplicitFan ==
    (fan_pc = "done" /\ Len(fan_indices) > 0) =>
        LET n == Len(fan_indices)
        IN  IF n < 3
            THEN fan_out = <<>>
            ELSE /\ Len(fan_out) = 3 * (n - 2)
                 /\ \A i \in 1..(n - 2) :
                       Triple(fan_out, i) =
                           <<At(fan_indices, 0), At(fan_indices, i), At(fan_indices, i + 1)>>

\* C2 witness: the fan [5,1,2,3] unrolled to [5,1,2,5,2,3], over a vertex
\* list that none of these indices names.
C2_Witness ==
    /\ fan_pc = "done"
    /\ fan_indices = <<5, 1, 2, 3>>
    /\ fan_vertices_size = 0
    /\ fan_out = <<5, 1, 2, 5, 2, 3>>

\* C3: with no indices and V vertices, fromFanIndices returns the empty
\* vector when V < 3 and otherwise exactly the triples (0, i, i+1) for
\* i = 1 .. V-2 in order, 3*(V-2) entries: iteration i stores (0, i, i+1).
C3_ImplicitFan ==
    /\ (fan_pc = "done" /\ Len(fan_indices) = 0) =>
          LET V == fan_vertices_size
          IN  IF V < 3
              THEN fan_out = <<>>
              ELSE /\ Len(fan_out) = 3 * (V - 2)
                   /\ \A i \in 1..(V - 2) : Triple(fan_out, i) = <<0, i, i + 1>>
    /\ (fan_pc = "pushed") => fan_pushed = <<0, fan_i, fan_i + 1>>

\* C4: a fan built from degenerate input (1 or 2 indices, or no indices and
\* fewer than 3 vertices) gives, from every builder, a result of primitive
\* type kTriangle with vertex_count < 3.
DegenerateFanInput ==
    /\ input.vertex_mode = "kTriangleFan"
    /\ \/ Len(input.indices) \in {1, 2}
       \/ Len(input.indices) = 0 /\ Len(input.vertices) < 3

C4_DegenerateFanDrawsNothing ==
    (BuilderReturned /\ DegenerateFanInput) =>
        /\ last.ret.type = "kTriangle"
        /\ last.ret.vertex_buffer.vertex_count < 3

\* C5: the constructor stores vertices, colours, texture coordinates, bounds
\* and mode as passed, for every mode, and stores the indices as passed for
\* kTriangles and kTriangleStrip.
C5_ConstructionFrame ==
    (phase # "new") =>
        /\ vertices_ = input.vertices
        /\ colors_ = input.colors
        /\ texture_coordinates_ = input.texture_coordinates
        /\ bounds_ = input.bounds
        /\ vertex_mode_ = input.vertex_mode
        /\ (input.vertex_mode \in {"kTriangles", "kTriangleStrip"} =>
                indices_ = input.indices)

\* C5 witness: a fan whose index list was rewritten while its attributes
\* were kept, next to which strips keep their indices.
C5_Witness ==
    /\ phase = "live"
    /\ vertex_mode_ = "kTriangleFan"
    /\ indices_ # input.indices
    /\ Len(vertices_) > 0 /\ vertices_ = input.vertices
    /\ Len(colors_) > 0 /\ colors_ = input.colors
    /\ Len(texture_coordinates_) > 0 /\ texture_coordinates_ = input.texture_coordinates

\* C6: once constructed, no call changes vertices, indices, colours, texture
\* coordinates, bounds or mode, and a call repeated with the same arguments
\* returns the same result (counts, index type, primitive type, contents).
C6_ImmutableAndRepeatable ==
    [][phase = "live" =>
        /\ geom' = geom
        /\ (last'.op = last.op /\ last'.args = last.args) => last'.ret = last.ret]_vars

\* C7: GetTextureCoordinateCoverge returns nullopt exactly when there are
\* no texture coordinates or no vertices, and otherwise the smallest
\* axis-aligned rectangle containing every texture coordinate.
IsBoundingRect(rect, points) ==
    LET K == 1..Len(points)
    IN  /\ \A k \in K : /\ rect.l <= points[k].x /\ points[k].x <= rect.r
                        /\ rect.t <= points[k].y /\ points[k].y <= rect.b
        /\ \E k \in K : points[k].x = rect.l
        /\ \E k \in K : points[k].x = rect.r
        /\ \E k \in K : points[k].y = rect.t
        /\ \E k \in K : points[k].y = rect.b

C7_TextureCoverage ==
    (phase = "live" /\ last.op = "GetTextureCoordinateCoverge") =>
        IF Len(texture_coordinates_) = 0 \/ Len(vertices_) = 0
        THEN last.ret = Nullopt
        ELSE /\ last.ret.has_value
             /\ IsBoundingRect(last.ret.value, texture_coordinates_)

\* C7 witness: texture coordinates but no vertices, and the answer nullopt.
C7_Witness ==
    /\ phase = "live"
    /\ last.op = "GetTextureCoordinateCoverge"
    /\ Len(texture_coordinates_) > 1
    /\ Len(vertices_) = 0
    /\ last.ret = Nullopt

\* C8: every texture coordinate GetPositionUVColorBuffer packs has both
\* components in [0, 1 - kEhCloseEnough], hence below 1.0, for every
\* coverage rectangle, effect transform and source point.
InClampRange(v) == (~v.nan) /\ 0 <= v.v /\ v.v <= One - kEhCloseEnough /\ v.v < One

C8_UVClamped ==
    (phase = "live" /\ last.op = "GetPositionUVColorBuffer") =>
        LET data == last.ret.vertex_buffer.vertex_buffer.data
        IN  \A k \in 1..Len(data) :
                /\ InClampRange(data[k].texture_coords.x)
                /\ InClampRange(data[k].texture_coords.y)

\* C9: on a geometry whose colours and texture coordinates are each empty
\* or as long as the vertices, every element read of
\* GetPositionUVColorBuffer is inside the vector it reads.
DataModelInvariant ==
    /\ Len(colors_) \in {0, Len(vertices_)}
    /\ Len(texture_coordinates_) \in {0, Len(vertices_)}

C9_ReadsInBounds ==
    (phase # "new" /\ last.op = "GetPositionUVColorBuffer" /\ DataModelInvariant) =>
        \A r \in reads : r.index < r.size

\* C10: unrolling a fan whose indices (if any) all name a vertex stores only
\* indices that name a vertex: an element of the input indices in the
\* explicit case, and the loop's i or i+1 itself, unchanged by the 16-bit
\* store, in the implicit case, for every vertex count.
C10_FanIndicesValid ==
    /\ (fan_pc = "done" /\ \A k \in 1..Len(fan_indices) : fan_indices[k] < fan_vertices_size) =>
          /\ \A k \in 1..Len(fan_out) : fan_out[k] < fan_vertices_size
          /\ Len(fan_indices) > 0 =>
                \A k \in 1..Len(fan_out) :
                    \E j \in 1..Len(fan_indices) : fan_out[k] = fan_indices[j]
          /\ Len(fan_indices) = 0 =>
                \A i \in 1..(Len(fan_out) \div 3) :
                    /\ fan_out[3 * i - 1] = i
                    /\ fan_out[3 * i] = i + 1
    /\ (fan_pc = "pushed") =>
          /\ \A k \in 1..3 : fan_pushed[k] < fan_vertices_size
          /\ fan_pushed[2] = fan_i
          /\ fan_pushed[3] = fan_i + 1

====
